---- MODULE Spec2Model ----
(***************************************************************************)
(* Model of the in-memory file system of tamriin-baby-come-down.py:        *)
(* File, Folder and FileSystem objects live in a heap of objects, so that  *)
(* object identity, aliasing and the name attribute of a node (as opposed  *)
(* to the key it is stored under) are all part of the state.               *)
(*                                                                         *)
(* A Python str is a sequence of one-character strings; an optional str    *)
(* (the password) is None or Some(str).                                    *)
(***************************************************************************)
EXTENDS Integers, Sequences, FiniteSets, TLC

VARIABLES heap, current

vars == <<heap, current>>

-----------------------------------------------------------------------------
(* Bounds *)

\* objects ever constructed and kept, the root included
MaxNodes == 3
\* longest file content of the File-level specification
MaxLen == 3

-----------------------------------------------------------------------------
(* Python values *)

None == <<>>
Some(s) == <<s>>

\* truth value of an optional str: None and "" are falsy
Truthy(p) == p # None /\ p[1] # <<>>

NL == "\n"
Slash == "/"
DotDot == <<".", ".">>

NoChildren == [k \in {} |-> 0]

\* File.__init__
NewFile(name, content, password) ==
    [kind |-> "File", name |-> name, content |-> content,
     password |-> password, children |-> NoChildren]

\* Folder.__init__
NewFolder(name) ==
    [kind |-> "Folder", name |-> name, content |-> <<>>,
     password |-> None, children |-> NoChildren]

\* FileSystem.root: the object built first
Root == 1

-----------------------------------------------------------------------------
(* str methods *)

StartsWithSlash(s) == Len(s) > 0 /\ s[1] = Slash

RECURSIVE LStrip(_)
LStrip(s) == IF s # <<>> /\ Head(s) = Slash THEN LStrip(Tail(s)) ELSE s

RECURSIVE RStrip(_)
RStrip(s) ==
    IF s # <<>> /\ s[Len(s)] = Slash THEN RStrip(SubSeq(s, 1, Len(s) - 1)) ELSE s

\* str.strip("/")
Strip(s) == RStrip(LStrip(s))

\* str.split(sep): never empty, "" gives [""]
RECURSIVE Split(_, _)
Split(s, sep) ==
    IF \A i \in 1..Len(s) : s[i] # sep
    THEN <<s>>
    ELSE LET i == CHOOSE j \in 1..Len(s) :
                      s[j] = sep /\ \A k \in 1..(j - 1) : s[k] # sep
         IN  <<SubSeq(s, 1, i - 1)>> \o Split(SubSeq(s, i + 1, Len(s)), sep)

\* sep.join(parts)
RECURSIVE Join(_, _)
Join(parts, sep) ==
    IF parts = <<>> THEN <<>>
    ELSE IF Len(parts) = 1 THEN parts[1]
    ELSE parts[1] \o <<sep>> \o Join(Tail(parts), sep)

\* str.splitlines() for contents whose only line boundary is "\n":
\* a trailing newline does not open a last empty line
RECURSIVE SplitLines(_)
SplitLines(s) ==
    IF s = <<>> THEN <<>>
    ELSE IF \A i \in 1..Len(s) : s[i] # NL
    THEN <<s>>
    ELSE LET i == CHOOSE j \in 1..Len(s) :
                      s[j] = NL /\ \A k \in 1..(j - 1) : s[k] # NL
         IN  <<SubSeq(s, 1, i - 1)>> \o SplitLines(SubSeq(s, i + 1, Len(s)))

\* del lines[i], zero-based
DelAt(lines, i) ==
    SubSeq(lines, 1, i) \o SubSeq(lines, i + 2, Len(lines))

\* keyword in content
Contains(s, k) ==
    \E i \in 0..(Len(s) - Len(k)) : SubSeq(s, i + 1, i + Len(k)) = k

-----------------------------------------------------------------------------
(* File *)

\* File.read: [err, ret]
File_read(f, password) ==
    IF Truthy(f.password) /\ f.password # password
    THEN [err |-> "PermissionError", ret |-> None]
    ELSE [err |-> "ok", ret |-> Some(f.content)]

\* File.write
File_write(f, new_content) == [f EXCEPT !.content = new_content]

\* File.delete_line
File_delete_line(f, line_no) ==
    LET lines == SplitLines(f.content)
        kept  == IF 0 <= line_no /\ line_no < Len(lines)
                 THEN DelAt(lines, line_no) ELSE lines
    IN  [f EXCEPT !.content = Join(kept, NL)]

\* File.search
File_search(f, keyword) == Contains(f.content, keyword)

-----------------------------------------------------------------------------
(* Folder: each method gives [err, heap] or [err, node] *)

\* add that stores the item without looking for its name among the children
Folder_add_Overwrites(h, f, item) ==
    IF h[f].kind # "Folder" THEN [err |-> "AttributeError", heap |-> h]
    ELSE [err |-> "ok",
          heap |-> [h EXCEPT ![f].children =
                      [k \in DOMAIN h[f].children \cup {h[item].name} |->
                          IF k = h[item].name THEN item
                          ELSE h[f].children[k]]]]

\* Folder.add; a File has no such method
Folder_add(h, f, item) ==
    IF h[f].kind # "Folder" THEN [err |-> "AttributeError", heap |-> h]
    ELSE IF h[item].name \in DOMAIN h[f].children
    THEN [err |-> "ValueError", heap |-> h]
    ELSE [err |-> "ok",
          heap |-> [h EXCEPT ![f].children =
                      [k \in DOMAIN h[f].children \cup {h[item].name} |->
                          IF k = h[item].name THEN item
                          ELSE h[f].children[k]]]]

\* Folder.remove
Folder_remove(h, f, name) ==
    IF name \notin DOMAIN h[f].children
    THEN [err |-> "FileNotFoundError", heap |-> h]
    ELSE [err |-> "ok",
          heap |-> [h EXCEPT ![f].children =
                      [k \in DOMAIN h[f].children \ {name} |->
                          h[f].children[k]]]]

\* Folder.find; a File has no such method
Folder_find(h, f, name) ==
    IF h[f].kind # "Folder" THEN [err |-> "AttributeError", node |-> 0]
    ELSE IF name \notin DOMAIN h[f].children
    THEN [err |-> "FileNotFoundError", node |-> 0]
    ELSE [err |-> "ok", node |-> h[f].children[name]]

\* Folder.list_items, the order of the keys left out
Folder_list_items(h, f) == DOMAIN h[f].children

-----------------------------------------------------------------------------
(* FileSystem.parse_path *)

\* parse_path whose ".." leaves the node where it is
RECURSIVE Walk_DotDotStays(_, _, _)
Walk_DotDotStays(h, node, parts) ==
    IF parts = <<>> THEN [err |-> "ok", node |-> node]
    ELSE LET part == Head(parts) IN
         IF part # <<>> /\ part # DotDot
         THEN LET r == Folder_find(h, node, part) IN
              IF r.err # "ok" THEN r
              ELSE Walk_DotDotStays(h, r.node, Tail(parts))
         ELSE Walk_DotDotStays(h, node, Tail(parts))

\* the for loop over parts
RECURSIVE Walk(_, _, _)
Walk(h, node, parts) ==
    IF parts = <<>> THEN [err |-> "ok", node |-> node]
    ELSE LET part == Head(parts) IN
         IF part = DotDot THEN Walk(h, Root, Tail(parts))
         ELSE IF part # <<>>
         THEN LET r == Folder_find(h, node, part) IN
              IF r.err # "ok" THEN r ELSE Walk(h, r.node, Tail(parts))
         ELSE Walk(h, node, Tail(parts))

parse_path(h, cur, path) ==
    Walk(h, IF StartsWithSlash(path) THEN Root ELSE cur,
         Split(Strip(path), Slash))

\* "/".join(dest_path.split("/")[:-1])
DestParent(dest_path) ==
    LET parts == Split(dest_path, Slash)
    IN  Join(SubSeq(parts, 1, Len(parts) - 1), Slash)

\* dest_path.split("/")[-1]
DestName(dest_path) ==
    LET parts == Split(dest_path, Slash) IN parts[Len(parts)]

\* dest_folder of mv and cp
DestFolder(h, cur, dest_path) == parse_path(h, cur, DestParent(dest_path))

-----------------------------------------------------------------------------
(* FileSystem commands: each gives [err, heap, current, ret], the state    *)
(* the command leaves behind whether it returns or raises                  *)

Raise(e, h, cur) == [err |-> e, heap |-> h, current |-> cur, ret |-> None]
Return(v, h, cur) == [err |-> "ok", heap |-> h, current |-> cur, ret |-> v]

\* FileSystem.mkdir; a Folder whose add raised is dropped
mkdir(h, cur, name) ==
    LET id == Len(h) + 1
        a  == Folder_add(Append(h, NewFolder(name)), cur, id)
    IN  IF a.err # "ok" THEN Raise(a.err, h, cur)
        ELSE Return(None, a.heap, cur)

\* fs.current.add(File(name, content, password)), as the example does
add_file(h, cur, name, content, password) ==
    LET id == Len(h) + 1
        a  == Folder_add(Append(h, NewFile(name, content, password)), cur, id)
    IN  IF a.err # "ok" THEN Raise(a.err, h, cur)
        ELSE Return(None, a.heap, cur)

\* FileSystem.ls
ls(h, cur) == Return(Folder_list_items(h, cur), h, cur)

\* cd that assigns current before it tests the kind of the destination
cd_MovesThenRaises(h, cur, path) ==
    LET d == parse_path(h, cur, path)
    IN  IF d.err # "ok" THEN Raise(d.err, h, cur)
        ELSE IF h[d.node].kind = "Folder" THEN Return(None, h, d.node)
        ELSE Raise("NotADirectoryError", h, d.node)

\* FileSystem.cd
cd(h, cur, path) ==
    LET d == parse_path(h, cur, path)
    IN  IF d.err # "ok" THEN Raise(d.err, h, cur)
        ELSE IF h[d.node].kind = "Folder" THEN Return(None, h, d.node)
        ELSE Raise("NotADirectoryError", h, cur)

\* FileSystem.cat
cat(h, cur, path, password) ==
    LET t == parse_path(h, cur, path)
    IN  IF t.err # "ok" THEN Raise(t.err, h, cur)
        ELSE IF h[t.node].kind = "File"
        THEN LET r == File_read(h[t.node], password)
             IN  IF r.err # "ok" THEN Raise(r.err, h, cur)
                 ELSE Return(r.ret, h, cur)
        ELSE Raise("FileNotFoundError", h, cur)

\* FileSystem.mv: the rename is done before add and remove can raise
mv(h, cur, src_path, dest_path, password) ==
    LET s == parse_path(h, cur, src_path)
        d == DestFolder(h, cur, dest_path)
        new_name == DestName(dest_path)
    IN  IF s.err # "ok" THEN Raise(s.err, h, cur)
        ELSE IF d.err # "ok" THEN Raise(d.err, h, cur)
        ELSE IF /\ h[s.node].kind = "File"
                /\ Truthy(h[s.node].password)
                /\ h[s.node].password # password
        THEN Raise("PermissionError", h, cur)
        ELSE LET h1 == [h EXCEPT ![s.node].name = new_name]
                 a  == Folder_add(h1, d.node, s.node)
             IN  IF a.err # "ok" THEN Raise(a.err, h1, cur)
                 ELSE LET r == Folder_remove(a.heap, cur, a.heap[s.node].name)
                      IN  IF r.err # "ok" THEN Raise(r.err, a.heap, cur)
                          ELSE Return(None, r.heap, cur)

\* cp that inserts the source object itself under the new name
cp_SharesSource(h, cur, src_path, dest_path, password) ==
    LET s == parse_path(h, cur, src_path)
        d == DestFolder(h, cur, dest_path)
        new_name == DestName(dest_path)
    IN  IF s.err # "ok" THEN Raise(s.err, h, cur)
        ELSE IF d.err # "ok" THEN Raise(d.err, h, cur)
        ELSE IF h[s.node].kind = "File"
        THEN IF /\ Truthy(h[s.node].password)
                /\ h[s.node].password # password
             THEN Raise("PermissionError", h, cur)
             ELSE IF h[d.node].kind # "Folder"
             THEN Raise("AttributeError", h, cur)
             ELSE IF new_name \in DOMAIN h[d.node].children
             THEN Raise("ValueError", h, cur)
             ELSE Return(None,
                         [h EXCEPT ![d.node].children =
                             [k \in DOMAIN h[d.node].children \cup {new_name} |->
                                 IF k = new_name THEN s.node
                                 ELSE h[d.node].children[k]]],
                         cur)
        ELSE Raise("FileNotFoundError", h, cur)

\* FileSystem.cp
cp(h, cur, src_path, dest_path, password) ==
    LET s == parse_path(h, cur, src_path)
        d == DestFolder(h, cur, dest_path)
        new_name == DestName(dest_path)
    IN  IF s.err # "ok" THEN Raise(s.err, h, cur)
        ELSE IF d.err # "ok" THEN Raise(d.err, h, cur)
        ELSE IF h[s.node].kind = "File"
        THEN IF /\ Truthy(h[s.node].password)
                /\ h[s.node].password # password
             THEN Raise("PermissionError", h, cur)
             ELSE LET id == Len(h) + 1
                      f  == NewFile(new_name, h[s.node].content,
                                    h[s.node].password)
                      a  == Folder_add(Append(h, f), d.node, id)
                  IN  IF a.err # "ok" THEN Raise(a.err, h, cur)
                      ELSE Return(None, a.heap, cur)
        ELSE Raise("FileNotFoundError", h, cur)

\* rm that removes the entry from the root folder
rm_FromRoot(h, cur, path, password) ==
    LET t == parse_path(h, cur, path)
    IN  IF t.err # "ok" THEN Raise(t.err, h, cur)
        ELSE IF /\ h[t.node].kind = "File"
                /\ Truthy(h[t.node].password)
                /\ h[t.node].password # password
        THEN Raise("PermissionError", h, cur)
        ELSE LET r == Folder_remove(h, Root, h[t.node].name)
             IN  IF r.err # "ok" THEN Raise(r.err, h, cur)
                 ELSE Return(None, r.heap, cur)

\* FileSystem.rm
rm(h, cur, path, password) ==
    LET t == parse_path(h, cur, path)
    IN  IF t.err # "ok" THEN Raise(t.err, h, cur)
        ELSE IF /\ h[t.node].kind = "File"
                /\ Truthy(h[t.node].password)
                /\ h[t.node].password # password
        THEN Raise("PermissionError", h, cur)
        ELSE LET r == Folder_remove(h, cur, h[t.node].name)
             IN  IF r.err # "ok" THEN Raise(r.err, h, cur)
                 ELSE Return(None, r.heap, cur)

-----------------------------------------------------------------------------
(* Inputs *)

A == <<"a">>
B == <<"b">>

\* names given to mkdir and to File(...)
Names == {A, B}

\* paths given to cd, cat and rm
Paths ==
    { A, B, <<"/", "a">>, <<"a", "/", "b">>,
      DotDot, <<".", ".", "/", ".", ".", "/", "a">> }

\* source and destination paths given to mv and cp
SrcPaths == {A, B, <<"a", "/", "b">>}
DestPaths == {B, <<"/", "b">>, <<"a", "/", "b">>}

\* passwords a File is built with
FilePasswords == {None, Some(<<>>), Some(<<"p">>)}

\* passwords a caller supplies
Passwords == {None, Some(<<"p">>)}

\* contents of the files of the file system
Contents == {<<"x">>}
NewContents == {<<"y">>}

\* strings over cs of length n, and up to n
StrOfLen(cs, n) == [1..n -> cs]
StrUpTo(cs, n) == UNION {StrOfLen(cs, k) : k \in 0..n}

\* contents, line numbers, supplied passwords and keywords of the File-level
\* specification
FileContents == StrUpTo({"x", "y", NL}, MaxLen)
LineNos == (0 - 1)..(MaxLen + 1)
ReadPasswords == {None, Some(<<>>), Some(<<"p">>), Some(<<"q">>)}
Keywords == {<<"x">>, <<"x", NL>>}

Files(h) == {i \in 1..Len(h) : h[i].kind = "File"}
Folders(h) == {i \in 1..Len(h) : h[i].kind = "Folder"}

\* the objects reached from those of S by children links
RECURSIVE ReachFrom(_, _)
ReachFrom(h, S) ==
    LET T == S \cup UNION {{h[i].children[k] : k \in DOMAIN h[i].children} :
                             i \in S}
    IN  IF T = S THEN S ELSE ReachFrom(h, T)

-----------------------------------------------------------------------------
(* The file system as a state machine.  What a command returns or raises   *)
(* is the err and ret of its outcome; the state keeps the objects and the  *)
(* cursor.  Objects no longer referenced stay in the heap.                  *)

\* FileSystem.__init__
Init ==
    /\ heap = <<NewFolder(<<"r", "o", "o", "t">>)>>
    /\ current = Root

\* a command takes the state to the one it leaves behind
Step(out) ==
    /\ Len(out.heap) <= MaxNodes
    /\ heap' = out.heap
    /\ current' = out.current

MkDir == \E n \in Names : Step(mkdir(heap, current, n))

AddFile ==
    \E n \in Names, c \in Contents, p \in FilePasswords :
        Step(add_file(heap, current, n, c, p))

Ls == Step(ls(heap, current))

Cd == \E p \in Paths : Step(cd(heap, current, p))

Cat == \E p \in Paths, w \in Passwords : Step(cat(heap, current, p, w))

Mv ==
    \E s \in SrcPaths, d \in DestPaths, w \in Passwords :
        Step(mv(heap, current, s, d, w))

Cp ==
    \E s \in SrcPaths, d \in DestPaths, w \in Passwords :
        Step(cp(heap, current, s, d, w))

Rm == \E p \in Paths, w \in Passwords : Step(rm(heap, current, p, w))

\* File.write on a File object of the heap
Write ==
    \E f \in Files(heap), c \in NewContents :
        Step(Return(None, [heap EXCEPT ![f] = File_write(heap[f], c)], current))

Next == MkDir \/ AddFile \/ Ls \/ Cd \/ Cat \/ Mv \/ Cp \/ Rm \/ Write

Spec == Init /\ [][Next]_vars

-----------------------------------------------------------------------------
(* The File methods on one file, over every short content *)

\* fs.current.add(File(name, content, password)) on a new file system
FileInit ==
    \E c \in FileContents, p \in FilePasswords :
        /\ heap = <<[NewFolder(<<"r", "o", "o", "t">>) EXCEPT
                       !.children = [k \in {A} |-> 2]],
                    NewFile(A, c, p)>>
        /\ current = Root

FileRead ==
    \E f \in Files(heap), w \in ReadPasswords :
        /\ File_read(heap[f], w).err \in {"ok", "PermissionError"}
        /\ UNCHANGED vars

FileWrite ==
    \E f \in Files(heap), c \in FileContents :
        /\ heap' = [heap EXCEPT ![f] = File_write(heap[f], c)]
        /\ UNCHANGED current

FileDeleteLine ==
    \E f \in Files(heap), i \in LineNos :
        /\ heap' = [heap EXCEPT ![f] = File_delete_line(heap[f], i)]
        /\ UNCHANGED current

FileSearch ==
    \E f \in Files(heap), k \in Keywords :
        /\ File_search(heap[f], k) \in BOOLEAN
        /\ UNCHANGED vars

FileNext == FileRead \/ FileWrite \/ FileDeleteLine \/ FileSearch \/ Cat

SpecFile == FileInit /\ [][FileNext]_vars

TypeOK ==
    /\ Len(heap) \in 1..MaxNodes
    /\ current \in Folders(heap)

-----------------------------------------------------------------------------
(* Properties.  A property of one command is stated of its outcome in      *)
(* every reachable state, for every input of the sets below.               *)

\* paths the properties of rm and of path resolution range over
ClaimPaths ==
    Paths \cup { <<"a", "/", "a">>, <<"b", "/", "a">>, <<"/", "b">>,
                 <<"/", "a", "/", "b">> }

\* destination paths the properties of mv and cp range over
ClaimDests == DestPaths \cup { A, <<"b", "/", "a">>, <<"/", "a">> }

\* paths with a ".." segment
DotDotPaths ==
    { DotDot,
      <<".", ".", "/", "a">>,
      <<".", ".", "/", ".", ".", "/", "a">>,
      <<"/", ".", ".", "/", "a">>,
      <<"a", "/", ".", ".">>,
      <<"a", "/", ".", ".", "/", "b">>,
      <<"b", "/", ".", ".", "/", "a">>,
      <<"a", "/", "b", "/", ".", ".", "/", ".", ".", "/", "a">> }

\* objects reachable from root
Reachable == ReachFrom(heap, {Root})

\* the keys under which folder f holds object i
KeysOf(h, f, i) == {k \in DOMAIN h[f].children : h[f].children[k] = i}

\* C1: after any sequence of commands, returning or raising, current is a
\* Folder reachable from root through children links.
C1_CurrentReachable ==
    /\ current \in Reachable
    /\ heap[current].kind = "Folder"

\* C1 witness: the cursor is below root and an entry has been removed
\* (an object is no longer reachable from root).
C1_Witness ==
    /\ current # Root
    /\ \E i \in 1..Len(heap) : i \notin Reachable

\* C2: in every reachable state no folder has two distinct children whose
\* name attributes are equal.
C2_UniqueChildNames ==
    \A f \in Folders(heap) \cap Reachable :
        \A k1, k2 \in DOMAIN heap[f].children :
            heap[f].children[k1] # heap[f].children[k2]
                => heap[heap[f].children[k1]].name
                     # heap[heap[f].children[k2]].name

\* C3: for src a direct child of current and a destination folder with no
\* child named newName, after a successful mv the destination folder finds
\* src under newName and current no longer holds src under its old name.
C3_MvMovesOrRenames ==
    \A s \in SrcPaths, d \in ClaimDests, w \in Passwords :
        LET src == parse_path(heap, current, s)
            dst == DestFolder(heap, current, d)
            o   == mv(heap, current, s, d, w)
        IN  ( /\ src.err = "ok"
              /\ KeysOf(heap, current, src.node) # {}
              /\ dst.err = "ok"
              /\ heap[dst.node].kind = "Folder"
              /\ DestName(d) \notin DOMAIN heap[dst.node].children
              /\ \A k \in DOMAIN heap[dst.node].children :
                     heap[heap[dst.node].children[k]].name # DestName(d)
              /\ o.err = "ok" )
            => /\ Folder_find(o.heap, dst.node, DestName(d))
                    = [err |-> "ok", node |-> src.node]
               /\ \A k \in KeysOf(heap, current, src.node) :
                      k \notin KeysOf(o.heap, current, src.node)

\* C4: rm on a protected File (password set) with another password, or with
\* none, raises PermissionError and leaves the tree and current as they were.
C4_RmDeniedChangesNothing ==
    \A p \in ClaimPaths, w \in ReadPasswords :
        LET t == parse_path(heap, current, p)
        IN  ( /\ t.err = "ok"
              /\ heap[t.node].kind = "File"
              /\ heap[t.node].password # None
              /\ heap[t.node].password # w )
            => rm(heap, current, p, w) = Raise("PermissionError", heap, current)

\* C5: for every protected file (password set, the empty string included)
\* with password P, read(P) returns the content and read(w) raises
\* PermissionError for every other w, None included; cat does the same.
C5_ReadGate ==
    \A f \in Files(heap) :
        heap[f].password # None =>
            /\ File_read(heap[f], heap[f].password)
                 = [err |-> "ok", ret |-> Some(heap[f].content)]
            /\ \A w \in ReadPasswords \ {heap[f].password} :
                   File_read(heap[f], w).err = "PermissionError"
            /\ \A k \in KeysOf(heap, current, f), w \in ReadPasswords :
                   /\ cat(heap, current, k, w).err = File_read(heap[f], w).err
                   /\ cat(heap, current, k, w).ret = File_read(heap[f], w).ret

\* C6: for a destination "/name" the parent part resolves to root whatever
\* current is, and a successful cp inserts the new File into root.
C6_AbsoluteDestIsRoot ==
    \A d \in {<<"/", "a">>, <<"/", "b">>} :
        /\ DestFolder(heap, current, d) = [err |-> "ok", node |-> Root]
        /\ \A s \in SrcPaths, w \in Passwords :
               LET o == cp(heap, current, s, d, w)
               IN  o.err = "ok" =>
                       KeysOf(o.heap, Root, Len(heap) + 1) = {DestName(d)}

\* C7: a successful cp leaves the source file's content, password, name and
\* location as they were and adds a distinct File with the same content and
\* password; a write on the copy leaves the source's content as it was, and
\* a write on the source leaves the copy's.
C7_CpIndependentCopy ==
    \A s \in SrcPaths, d \in ClaimDests, w \in Passwords :
        LET o == cp(heap, current, s, d, w)
        IN  o.err = "ok" =>
            LET src  == parse_path(heap, current, s).node
                dst  == DestFolder(heap, current, d).node
                copy == o.heap[dst].children[DestName(d)]
            IN  /\ o.current = current
                /\ \A i \in 1..Len(heap) : i # dst => o.heap[i] = heap[i]
                /\ o.heap[src] = heap[src]
                /\ [o.heap[dst] EXCEPT !.children = heap[dst].children]
                     = heap[dst]
                /\ \A k \in DOMAIN heap[dst].children :
                       /\ k \in DOMAIN o.heap[dst].children
                       /\ o.heap[dst].children[k] = heap[dst].children[k]
                /\ DOMAIN o.heap[dst].children
                     = DOMAIN heap[dst].children \cup {DestName(d)}
                /\ copy # src
                /\ copy \notin 1..Len(heap)
                /\ o.heap[copy] = NewFile(DestName(d), heap[src].content,
                                          heap[src].password)
                /\ \A c \in NewContents \cup Contents \cup {<<>>} :
                       /\ [o.heap EXCEPT ![copy] = File_write(o.heap[copy], c)][src]
                            = heap[src]
                       /\ [o.heap EXCEPT ![src] = File_write(o.heap[src], c)][copy]
                            = o.heap[copy]

\* C7 witness: a protected file whose content has been written is copied
\* with its password from a folder below root.
C7_Witness ==
    /\ current # Root
    /\ \E s \in SrcPaths, d \in ClaimDests, w \in Passwords :
           /\ cp(heap, current, s, d, w).err = "ok"
           /\ heap[parse_path(heap, current, s).node].password = Some(<<"p">>)
           /\ heap[parse_path(heap, current, s).node].content = <<"y">>

\* the segments of a path, the place of its last "..", and the node the
\* resolution starts from
Segments(p) == Split(Strip(p), Slash)
LastDotDot(segs) ==
    CHOOSE j \in 1..Len(segs) :
        /\ segs[j] = DotDot
        /\ \A k \in (j + 1)..Len(segs) : segs[k] # DotDot
BeforeLastDotDot(segs) == SubSeq(segs, 1, LastDotDot(segs) - 1)
AfterLastDotDot(segs) == SubSeq(segs, LastDotDot(segs) + 1, Len(segs))
StartOf(cur, p) == IF StartsWithSlash(p) THEN Root ELSE cur

\* C8 as stated: from every folder, a path with ".." resolves to what the
\* segments after its last ".." resolve to from root, and cd("..") sets
\* current to root.
C8_DotDotAlwaysFromRoot ==
    \A p \in DotDotPaths :
        LET fromRoot == Walk(heap, Root, AfterLastDotDot(Segments(p)))
        IN  \A cur \in Folders(heap) :
                /\ parse_path(heap, cur, p) = fromRoot
                /\ cd(heap, cur, DotDot) = Return(None, heap, Root)

\* C8 amended: when the segments before the last ".." resolve, the path
\* resolves to what the segments after it resolve to from root; when one of
\* them fails, the path fails with that error.  "../../a" resolves like "a"
\* from root, and cd("..") sets current to root from every folder.
C8_DotDotResetsToRoot ==
    /\ \A p \in DotDotPaths :
           LET segs     == Segments(p)
               before   == BeforeLastDotDot(segs)
               fromRoot == Walk(heap, Root, AfterLastDotDot(segs))
           IN  \A cur \in Folders(heap) :
                   LET pre == Walk(heap, StartOf(cur, p), before)
                   IN  parse_path(heap, cur, p)
                         = IF pre.err # "ok" THEN pre ELSE fromRoot
    /\ \A cur \in Folders(heap) :
           /\ parse_path(heap, cur, <<".", ".", "/", ".", ".", "/", "a">>)
                = parse_path(heap, Root, A)
           /\ cd(heap, cur, DotDot) = Return(None, heap, Root)

\* C8 witness: from a cursor below root that has no child "a", "../../a"
\* resolves, and a path whose first segment is missing fails before its "..".
C8_Witness ==
    /\ current # Root
    /\ A \notin DOMAIN heap[current].children
    /\ B \notin DOMAIN heap[current].children
    /\ parse_path(heap, current, <<".", ".", "/", ".", ".", "/", "a">>).err = "ok"
    /\ parse_path(heap, current, <<"b", "/", ".", ".", "/", "a">>).err
         = "FileNotFoundError"

\* C9: after a successful rm(path) the node the path resolved to is no longer
\* a child of a folder that held it, and the path no longer resolves
\* (FileNotFoundError).
C9_RmRemovesResolvedNode ==
    \A p \in ClaimPaths, w \in Passwords :
        LET t == parse_path(heap, current, p)
            o == rm(heap, current, p, w)
        IN  (t.err = "ok" /\ o.err = "ok") =>
                /\ \A f \in Folders(heap) :
                       \A k \in KeysOf(heap, f, t.node) :
                           k \notin KeysOf(o.heap, f, t.node)
                /\ parse_path(o.heap, o.current, p).err = "FileNotFoundError"

\* C10: delete_line with an index below 0 or not below the line count
\* leaves the content as it was, for every content.
C10_DeleteLineOutOfRange ==
    \A f \in Files(heap), i \in LineNos :
        (i < 0 \/ i >= Len(SplitLines(heap[f].content)))
            => File_delete_line(heap[f], i).content = heap[f].content

\* C11: for every folder F and name n not yet in F, after F.add(File(n))
\* F.find(n) returns that file object, and a second F.add of a node named n
\* raises ValueError and leaves F's children as they were; mkdir(n) does the
\* same on current.
C11_AddThenFind ==
    /\ \A F \in Folders(heap), n \in Names \cup {DotDot, <<>>},
          p \in FilePasswords :
           n \notin DOMAIN heap[F].children =>
               LET id  == Len(heap) + 1
                   a   == Folder_add(Append(heap, NewFile(n, <<"x">>, p)), F, id)
                   two == Folder_add(Append(a.heap, NewFolder(n)), F, id + 1)
               IN  /\ a.err = "ok"
                   /\ Folder_find(a.heap, F, n) = [err |-> "ok", node |-> id]
                   /\ \A k \in DOMAIN heap[F].children :
                          Folder_find(a.heap, F, k) = Folder_find(heap, F, k)
                   /\ two.err = "ValueError"
                   /\ two.heap[F].children = a.heap[F].children
                   /\ two.heap[F].children[n] = id
    /\ \A n \in Names :
           n \notin DOMAIN heap[current].children =>
               LET o   == mkdir(heap, current, n)
                   two == mkdir(o.heap, o.current, n)
               IN  /\ o.err = "ok"
                   /\ Folder_find(o.heap, current, n)
                        = [err |-> "ok", node |-> Len(heap) + 1]
                   /\ o.heap[Len(heap) + 1] = NewFolder(n)
                   /\ two = Raise("ValueError", o.heap, o.current)

\* C11 witness: a File added under "a" is found in a cursor below root that
\* has no child "b" yet, so both the first and the second add happen there.
C11_Witness ==
    /\ current # Root
    /\ A \in DOMAIN heap[current].children
    /\ heap[heap[current].children[A]] = NewFile(A, <<"x">>, Some(<<"p">>))
    /\ B \notin DOMAIN heap[current].children
    /\ mkdir(heap, current, A).err = "ValueError"
    /\ mkdir(heap, current, B).err = "ok"

\* the entries (folder, key) of folders reachable from root that hold object i
Holders(h, i) ==
    {fk \in ReachFrom(h, {Root}) \X UNION {DOMAIN h[f].children : f \in 1..Len(h)} :
        /\ fk[2] \in DOMAIN h[fk[1]].children
        /\ h[fk[1]].children[fk[2]] = i}

\* the objects below object f
Below(h, f) == ReachFrom(h, {h[f].children[k] : k \in DOMAIN h[f].children})

\* C12: in every reachable state the structure under root is a tree: every
\* node other than root is a child of exactly one folder under exactly one
\* key, and no folder is reachable from itself through children links.
C12_Tree ==
    /\ \A i \in Reachable \ {Root} : Cardinality(Holders(heap, i)) = 1
    /\ \A f \in Reachable : f \notin Below(heap, f)

\* C13: a protected File (password set) that is a direct child of current is
\* removed from current by rm or mv only when the password supplied to that
\* call equals the file's own password.
C13_ProtectedNeedsPassword ==
    \A k \in DOMAIN heap[current].children :
        LET f == heap[current].children[k]
        IN  (heap[f].kind = "File" /\ heap[f].password # None) =>
                /\ \A p \in ClaimPaths, w \in ReadPasswords :
                       k \notin KeysOf(rm(heap, current, p, w).heap, current, f)
                           => w = heap[f].password
                /\ \A s \in SrcPaths, d \in ClaimDests, w \in ReadPasswords :
                       k \notin KeysOf(mv(heap, current, s, d, w).heap, current, f)
                           => w = heap[f].password

\* C14: in every reachable state each child is stored under its own name:
\* for every folder F and key k of F.children, F.children[k].name is k, so
\* that ls() lists the names of the children of current.
C14_KeyIsName ==
    /\ \A F \in Folders(heap) \cap Reachable :
           \A k \in DOMAIN heap[F].children :
               heap[heap[F].children[k]].name = k
    /\ ls(heap, current).ret
         = {heap[heap[current].children[k]].name :
              k \in DOMAIN heap[current].children}

\* path p, resolved from cur, has a segment that is neither empty nor ".."
\* right after a prefix that resolved to a File
ThroughFile(h, cur, p) ==
    LET segs == Segments(p)
    IN  \E i \in 1..(Len(segs) - 1) :
            LET pre == Walk(h, StartOf(cur, p), SubSeq(segs, 1, i))
            IN  /\ pre.err = "ok"
                /\ h[pre.node].kind = "File"
                /\ segs[i + 1] # <<>>
                /\ segs[i + 1] # DotDot

\* C15: resolving a path with a non-empty, non-".." segment after a segment
\* that resolved to a File raises FileNotFoundError, as a missing child
\* does, in parse_path and in every command that resolves the path.
C15_ThroughFileNotFound ==
    \A p \in ClaimPaths :
        ThroughFile(heap, current, p) =>
            /\ parse_path(heap, current, p).err = "FileNotFoundError"
            /\ cd(heap, current, p).err = "FileNotFoundError"
            /\ \A w \in Passwords :
                   /\ cat(heap, current, p, w).err = "FileNotFoundError"
                   /\ rm(heap, current, p, w).err = "FileNotFoundError"
                   /\ \A d \in DestPaths :
                          /\ mv(heap, current, p, d, w).err = "FileNotFoundError"
                          /\ cp(heap, current, p, d, w).err = "FileNotFoundError"

\* C16: only a successful cd changes the cursor: mkdir, ls, cat, mv, cp and
\* rm leave current referring to the same folder whether they return or
\* raise, and a cd that raises (the path is not found, or resolves to a File:
\* NotADirectoryError) leaves current and the tree as they were.
C16_OnlyCdMovesCursor ==
    /\ \A n \in Names : mkdir(heap, current, n).current = current
    /\ ls(heap, current).current = current
    /\ \A p \in Paths, w \in Passwords :
           LET r == rm(heap, current, p, w)
           IN  /\ cat(heap, current, p, w).current = current
               /\ r.current = current
               /\ r.heap[current].kind = "Folder"
    /\ \A s \in SrcPaths, d \in DestPaths, w \in Passwords :
           LET m == mv(heap, current, s, d, w)
           IN  /\ m.current = current
               /\ m.heap[current].kind = "Folder"
               /\ cp(heap, current, s, d, w).current = current
    /\ \A p \in ClaimPaths :
           LET t == parse_path(heap, current, p)
               o == cd(heap, current, p)
           IN  /\ o.heap = heap
               /\ o.err # "ok" => o.current = current
               /\ t.err # "ok" => o = Raise(t.err, heap, current)
               /\ (t.err = "ok" /\ heap[t.node].kind = "File")
                      => o = Raise("NotADirectoryError", heap, current)
               /\ (t.err = "ok" /\ heap[t.node].kind = "Folder")
                      => o = Return(None, heap, t.node)

\* C16 witness: below root, one cd fails on a File, another on a missing
\* name, and an rm succeeds, each leaving the cursor where it is.
C16_Witness ==
    /\ current # Root
    /\ \E p \in Paths : cd(heap, current, p).err = "NotADirectoryError"
    /\ \E p \in Paths : cd(heap, current, p).err = "FileNotFoundError"
    /\ \E p \in Paths, w \in Passwords :
           /\ rm(heap, current, p, w).err = "ok"
           /\ rm(heap, current, p, w).heap # heap

====
